---- MODULE Spec2Model ----
(***************************************************************************)
(* Model of bl3dump (src/bl3dump/__init__.py): the asset-path abstraction  *)
(* (_AbstractAsset / AssetFile / AssetFolder), the lazy serialization      *)
(* cache of AssetFile.data, the export queries and the de-duplicating      *)
(* glob.                                                                   *)
(*                                                                         *)
(* Strings are sequences of characters.  A character is an atom: "/" and   *)
(* "." are the two characters the code gives a meaning to, every other     *)
(* atom ("a", "uasset", "BL3 Data", ...) stands for a run of ordinary      *)
(* characters, so that len() of a suffix is the same on the path and on    *)
(* the display string it is sliced from.                                   *)
(* A pathlib path is a record [abs, parts]; parts are names (strings).     *)
(* resolve() is modelled on a tree without symbolic links.                 *)
(***************************************************************************)
EXTENDS Integers, Sequences, FiniteSets, TLC

VARIABLES
    \* ---- asset nodes (SpecPath)
    node,         \* the asset object the caller holds
    op,           \* the operation that produced the current state
    err,          \* the exception the last operation raised, or "none"
    leftRoot,     \* whether the path the last operation asked for normalises outside DATA_PATH
    touched,      \* the filesystem paths the last operation stat'ed
    unknown,      \* the set `unknown` of repeatable_missions.py
    \* ---- one AssetFile object (SpecCache); the disk is an input of every call
    data,         \* AssetFile._data
    regenerated,  \* whether _data was loaded after a JWP run of this object
    last,         \* what the last call met and did: disk, result, JWP runs, loads
    \* ---- one glob() generator (SpecGlob)
    listing,      \* the matching entries in the order the filesystem enumerates them
    pos,          \* how many entries the generator has consumed
    known_paths,  \* the local set known_paths
    yielded       \* the nodes yielded so far, each with the entry it came from

pathVars  == <<node, op, err, leftRoot, touched, unknown>>
cacheVars == <<data, regenerated, last>>
globVars  == <<listing, pos, known_paths, yielded>>
vars      == <<pathVars, cacheVars, globVars>>

----------------------------------------------------------------------------
(* Bounds *)

MaxSegs == 2      \* segments of an input string
MaxDepth == 2     \* depth below DATA_PATH reached by composition and traversal
MaxEntries == 3   \* entries of the directory a glob enumerates

----------------------------------------------------------------------------
(* Strings and pathlib *)

Last(s) == s[Len(s)]
Front(s) == SubSeq(s, 1, Len(s) - 1)

DotDot == <<".", ".">>
Dot == <<".">>

DATA_PATH == << <<"Borderlands">>, <<"BL3 Data">> >>

UASSET == <<".", "uasset">>
JSONEXT == <<".", "json">>
NOEXT == <<>>

\* str.split("/"): always at least one (possibly empty) segment
RECURSIVE Split(_)
Split(s) ==
    IF s = <<>> THEN << <<>> >>
    ELSE LET rest == Split(Tail(s)) IN
         IF Head(s) = "/" THEN << <<>> >> \o rest
         ELSE << <<Head(s)>> \o Head(rest) >> \o Tail(rest)

\* "/".join(parts)
RECURSIVE StrJoin(_)
StrJoin(parts) ==
    IF parts = <<>> THEN <<>>
    ELSE IF Len(parts) = 1 THEN Head(parts)
    ELSE Head(parts) \o <<"/">> \o StrJoin(Tail(parts))

\* pathlib.PurePath(str): empty and "." segments are dropped, ".." is kept
PurePath(s) ==
    [abs   |-> s # <<>> /\ Head(s) = "/",
     parts |-> SelectSeq(Split(s), LAMBDA g : g # <<>> /\ g # Dot)]

\* PurePath.__truediv__: an absolute right operand replaces the left one
PurePath_truediv(p, q) ==
    IF q.abs THEN q ELSE [abs |-> p.abs, parts |-> p.parts \o q.parts]

\* Path.resolve() of an absolute path: ".." pops, the parent of the top is the top
RECURSIVE ResolveParts(_, _)
ResolveParts(done, todo) ==
    IF todo = <<>> THEN done
    ELSE IF Head(todo) = DotDot
         THEN ResolveParts(IF done = <<>> THEN <<>> ELSE Front(done), Tail(todo))
         ELSE ResolveParts(done \o <<Head(todo)>>, Tail(todo))

Path_resolve(p) == [abs |-> TRUE, parts |-> ResolveParts(<<>>, p.parts)]

\* PurePath.relative_to succeeds (lexically) iff base is a prefix
IsRelativeTo(parts, base) ==
    Len(parts) >= Len(base) /\ SubSeq(parts, 1, Len(base)) = base

RelativeTo(parts, base) == SubSeq(parts, Len(base) + 1, Len(parts))

\* str.rfind("."), 1-based, 0 when absent
RECURSIVE RFindDot(_)
RFindDot(name) ==
    IF name = <<>> THEN 0
    ELSE IF Last(name) = "." THEN Len(name)
    ELSE RFindDot(Front(name))

\* PurePath.name: the final component, "" for the top of the drive
Name(parts) == IF parts = <<>> THEN <<>> ELSE Last(parts)

\* PurePath.suffix of a final component
Suffix(name) ==
    LET j == RFindDot(name) IN
    IF 1 < j /\ j < Len(name) THEN SubSeq(name, j, Len(name)) ELSE <<>>

\* PurePath.with_suffix
WithSuffix(parts, suffix) ==
    LET name == Name(parts)
        old  == Suffix(name)
        stem == IF old = <<>> THEN name ELSE SubSeq(name, 1, Len(name) - Len(old))
    IN  IF name = <<>> THEN parts   \* (ValueError; no asset path has an empty name)
        ELSE Front(parts) \o <<stem \o suffix>>

\* PurePath.parent
PathParent(parts) == IF parts = <<>> THEN <<>> ELSE Front(parts)

DataPathP == [abs |-> TRUE, parts |-> DATA_PATH]

----------------------------------------------------------------------------
(* _AbstractAsset, AssetFile, AssetFolder *)

\* A constructor argument: a str (isStr, s) or a pathlib.Path (p)
StrArg(s) == [isStr |-> TRUE, s |-> s, p |-> DataPathP]
PathArg(p) == [isStr |-> FALSE, s |-> <<>>, p |-> p]

\* path[0] on an empty str
RaisesIndexError(arg) == arg.isStr /\ arg.s = <<>>

\* lines 23-25: strip one leading "/", join under DATA_PATH
Requested(arg) ==
    LET p == IF arg.isStr
             THEN PurePath(IF Head(arg.s) = "/" THEN Tail(arg.s) ELSE arg.s)
             ELSE arg.p
    IN  PurePath_truediv(DataPathP, p)

\* lines 27-30 with the except branch left out
SandboxNoCollapse(parts) == parts

\* lines 27-30: a path that is not under DATA_PATH becomes DATA_PATH
Sandbox(parts) == IF IsRelativeTo(parts, DATA_PATH) THEN parts ELSE DATA_PATH

\* lines 32-36
DisplayPath(full) ==
    LET parts == RelativeTo(full, DATA_PATH) IN
    IF Len(parts) < 1 THEN <<"/">> ELSE <<"/">> \o StrJoin(parts) \o <<"/">>

NoPath == <<>>

AssetFolder(arg) ==
    LET full == Sandbox(Path_resolve(Requested(arg)).parts) IN
    [kind |-> "Folder", full |-> full, path |-> DisplayPath(full),
     asset |-> NoPath, json |-> NoPath]

AssetFile(arg) ==
    LET full0 == Sandbox(Path_resolve(Requested(arg)).parts)
        path0 == Front(DisplayPath(full0))
        suf   == Suffix(Name(full0))
        path1 == IF suf # <<>> THEN SubSeq(path0, 1, Len(path0) - Len(suf)) ELSE path0
        full  == IF suf # <<>> THEN WithSuffix(full0, NOEXT) ELSE full0
    IN  [kind |-> "File", full |-> full, path |-> path1,
         asset |-> WithSuffix(full, UASSET), json |-> WithSuffix(full, JSONEXT)]

New(kind, arg) == IF kind = "File" THEN AssetFile(arg) ELSE AssetFolder(arg)

\* whether the path asked for normalises to a place outside DATA_PATH
Escapes(p) == ~IsRelativeTo(Path_resolve(p).parts, DATA_PATH)

\* _AbstractAsset.__eq__ (both operands are assets)
AssetEq(a, b) == a.full = b.full

\* the methods the three class bodies define
AbstractAssetMethods ==
    {"__init__", "__repr__", "__eq__", "parent", "name", "exists", "glob"}
AssetFileMethods ==
    {"__init__", "exists", "as_folder", "_load_data", "_run_jwp",
     "_update_serialization", "data", "iter_exports_of_class", "get_single_export"}
AssetFolderMethods ==
    {"exists", "__truediv__", "as_file", "child_files", "child_folders",
     "search_child_files"}

\* Python: a class body that defines __eq__ and not __hash__ gets __hash__ = None,
\* and the subclasses inherit it
Hashable(kind) ==
    LET own == IF kind = "File" THEN AssetFileMethods ELSE AssetFolderMethods IN
    IF "__hash__" \in own THEN TRUE
    ELSE IF "__eq__" \in own THEN FALSE
    ELSE "__hash__" \in AbstractAssetMethods \/ "__eq__" \notin AbstractAssetMethods

----------------------------------------------------------------------------
(* The sidecar file, json.load and the exports *)

DATA_VERSION == 21

MaxExports == 2   \* records in a sidecar

ExportTypes == {"Mission", "Other"}

\* the "_apoc_data_ver" entry of a record: absent, or an integer
NoTag == [has |-> FALSE, ver |-> 0]
Tags == {NoTag} \cup {[has |-> TRUE, ver |-> v] : v \in {DATA_VERSION - 1, DATA_VERSION}}

Exports == [export_type : ExportTypes, tag : Tags]

\* record lists; only the first record may carry the version tag
ExportLists ==
    {q \in UNION {[1..n -> Exports] : n \in 0..MaxExports} :
        \A i \in 2..Len(q) : q[i].tag = NoTag}

\* what <stem>.json can be: missing, not JSON, the JSON null, a JSON array of records
Absent == [kind |-> "absent", recs |-> <<>>]
Garbage == [kind |-> "garbage", recs |-> <<>>]
JsonNull == [kind |-> "null", recs |-> <<>>]
JsonArray(q) == [kind |-> "array", recs |-> q]

Contents == {Absent, Garbage, JsonNull} \cup {JsonArray(q) : q \in ExportLists}

\* Python values of _data
PyNone == [kind |-> "None", recs |-> <<>>]
PyList(q) == [kind |-> "list", recs |-> q]

\* _load_data: open() and json.load(); on an exception _data is not assigned
JsonLoad(c) ==
    IF c.kind = "absent" THEN [exc |-> "FileNotFoundError:json", value |-> PyNone]
    ELSE IF c.kind = "garbage" THEN [exc |-> "JSONDecodeError", value |-> PyNone]
    ELSE IF c.kind = "null" THEN [exc |-> "none", value |-> PyNone]
    ELSE [exc |-> "none", value |-> PyList(c.recs)]

\* how the specification classifies a sidecar
FirstIsStale(q) == ~q[1].tag.has \/ q[1].tag.ver < DATA_VERSION
KindOf(c) ==
    IF c.kind # "array" THEN c.kind
    ELSE IF c.recs = <<>> THEN "empty"
    ELSE IF FirstIsStale(c.recs) THEN "stale"
    ELSE "fresh"

ListKinds == {"empty", "stale", "fresh"}

----------------------------------------------------------------------------
(* AssetFile: exists, _update_serialization, data, the export queries *)

\* existence taken from either file of the stem
AssetFile_existsEither(ae, sc) == ae \/ sc # Absent

\* AssetFile.exists: the binary asset, never the sidecar
AssetFile_exists(ae, sc) == ae

\* the sidecar test that never finds it missing
JsonMissingNever(sc) == FALSE

\* not self._json_path.exists()
JsonMissing(sc) == sc = Absent

\* a missing tag counted as current
NeedsRepairTagOnly(d) ==
    d.recs[1].tag.has /\ d.recs[1].tag.ver < DATA_VERSION

\* line 134, on a non-empty list
NeedsRepair(d) ==
    ~d.recs[1].tag.has \/ d.recs[1].tag.ver < DATA_VERSION

\* data reloaded on every access
NeedsLoadAlways(d) == TRUE

\* line 140: self._data is None
NeedsLoad(d) == d = PyNone

\* What one run of _update_serialization does on an unloaded object.  ae, sc: the
\* disk at the call; out1, out2: what JWP leaves as the sidecar on its first and
\* second run.  Returns the new _data, the exception, the sidecar left on disk,
\* the number of JWP runs, json.load calls and sidecar existence tests, and what
\* each run/load met.
UpdateSerialization(ae, sc, out1, out2) ==
    LET missing == JsonMissing(sc)
        ran1    == IF missing THEN 1 ELSE 0
        sc1     == IF missing THEN out1 ELSE sc
        ld1     == JsonLoad(sc1)
        ld2     == JsonLoad(out2)
        base    == [data |-> PyNone, exc |-> "none", disk |-> sc, jwp |-> 0,
                    loads |-> 0, stats |-> 0, regen |-> FALSE,
                    mid |-> "-", seen1 |-> "-", seen2 |-> "-"]
        after1  == [base EXCEPT !.disk = sc1, !.jwp = ran1,
                                !.stats = 1 + ran1,
                                !.mid = IF missing THEN KindOf(sc1) ELSE "-"]
    IN  IF ~AssetFile_exists(ae, sc) THEN base
        ELSE IF missing /\ JsonMissing(sc1) THEN after1
        ELSE IF ld1.exc # "none"
             THEN [after1 EXCEPT !.exc = ld1.exc, !.loads = 1, !.seen1 = KindOf(sc1)]
        ELSE IF ld1.value = PyNone \/ Len(ld1.value.recs) < 1 \/ ~NeedsRepair(ld1.value)
             THEN [after1 EXCEPT !.data = ld1.value, !.loads = 1,
                                 !.seen1 = KindOf(sc1), !.regen = (ran1 = 1)]
        ELSE IF ld2.exc # "none"
             THEN [after1 EXCEPT !.data = ld1.value, !.exc = ld2.exc, !.disk = out2,
                                 !.jwp = ran1 + 1, !.loads = 2, !.regen = (ran1 = 1),
                                 !.seen1 = KindOf(sc1), !.seen2 = KindOf(out2)]
        ELSE [after1 EXCEPT !.data = ld2.value, !.disk = out2,
                            !.jwp = ran1 + 1, !.loads = 2, !.regen = TRUE,
                            !.seen1 = KindOf(sc1), !.seen2 = KindOf(out2)]

\* the property AssetFile.data: [result, ret] and the effects of the update
DataGet(d, ae, sc, out1, out2) ==
    LET u == UpdateSerialization(ae, sc, out1, out2)
        idle == [data |-> d, exc |-> "none", disk |-> sc, jwp |-> 0, loads |-> 0,
                 stats |-> 0, regen |-> regenerated,
                 mid |-> "-", seen1 |-> "-", seen2 |-> "-"]
    IN  IF ~NeedsLoad(d) THEN [result |-> "ok", ret |-> d, eff |-> idle]
        ELSE IF ~AssetFile_exists(ae, sc)
             THEN [result |-> "FileNotFoundError", ret |-> PyNone, eff |-> idle]
        ELSE IF u.exc # "none"
             THEN [result |-> u.exc, ret |-> PyNone,
                   eff |-> IF u.loads = 1 THEN [u EXCEPT !.data = d, !.regen = regenerated]
                           ELSE u]
        ELSE IF u.data = PyNone
             THEN [result |-> "RuntimeError", ret |-> PyNone,
                   eff |-> [u EXCEPT !.data = d, !.regen = regenerated]]
        ELSE [result |-> "ok", ret |-> u.data, eff |-> u]

\* whether the first / second JWP run of a data access happens, so that the runs
\* that do not happen are not enumerated
RunsFirst(d, ae, sc) == NeedsLoad(d) /\ AssetFile_exists(ae, sc) /\ JsonMissing(sc)
RunsSecond(d, ae, sc, out1) ==
    NeedsLoad(d) /\ UpdateSerialization(ae, sc, out1, Absent).jwp
                    > (IF JsonMissing(sc) THEN 1 ELSE 0)

\* how the specification classifies the object and the disk at a call
PreOf(d, ae, sc) ==
    IF d # PyNone THEN "loaded"
    ELSE IF ~ae THEN "noasset"
    ELSE IF sc = Absent THEN "nosidecar"
    ELSE "sidecar"

NoExport == [kind |-> "None", recs |-> <<>>]
OneExport(e) == [kind |-> "export", recs |-> <<e>>]

NoCall ==
    [op |-> "none", cls |-> {}, pre |-> "-", side0 |-> "-", result |-> "-", ret |-> PyNone,
     jwp |-> 0, loads |-> 0, stats |-> 0, mid |-> "-", seen1 |-> "-", seen2 |-> "-"]

CallRecord(name, cls, d, ae, sc, result, ret, eff) ==
    [op |-> name, cls |-> cls, pre |-> PreOf(d, ae, sc),
     side0 |-> IF d # PyNone THEN "-" ELSE KindOf(sc),
     result |-> result, ret |-> ret,
     jwp |-> eff.jwp, loads |-> eff.loads, stats |-> eff.stats,
     mid |-> eff.mid, seen1 |-> eff.seen1, seen2 |-> eff.seen2]

\* file.data, with the disk as the call finds it: ae, whether <stem>.uasset
\* exists, and sc, the content of <stem>.json
DataCall(ae, sc) ==
    /\ \E out1 \in IF RunsFirst(data, ae, sc) THEN Contents ELSE {Absent} :
       \E out2 \in IF RunsSecond(data, ae, sc, out1) THEN Contents ELSE {Absent} :
       \E r \in {DataGet(data, ae, sc, out1, out2)} :
          /\ data' = r.eff.data
          /\ regenerated' = r.eff.regen
          /\ last' = CallRecord("data", {}, data, ae, sc, r.result, r.ret, r.eff)
    /\ UNCHANGED <<pathVars, globVars>>

\* iter_exports_of_class over a loaded list: the records next() can still produce
ExportsOfClass(d, cls) == SelectSeq(d.recs, LAMBDA e : e.export_type \in cls)

\* get_single_export that returns the first match without looking for a second
SingleOfFirst(matches) ==
    IF Len(matches) = 0 THEN [result |-> "ValueError:none", ret |-> NoExport]
    ELSE [result |-> "ok", ret |-> OneExport(matches[1])]

\* lines 154-170: first next(), then a second next()
SingleOf(matches) ==
    IF Len(matches) = 0 THEN [result |-> "ValueError:none", ret |-> NoExport]
    ELSE IF Len(matches) = 1 THEN [result |-> "ok", ret |-> OneExport(matches[1])]
    ELSE [result |-> "ValueError:multiple", ret |-> NoExport]

\* file.get_single_export(*cls): the first next() evaluates self.data
GetSingleExport(cls, ae, sc) ==
    /\ \E out1 \in IF RunsFirst(data, ae, sc) THEN Contents ELSE {Absent} :
       \E out2 \in IF RunsSecond(data, ae, sc, out1) THEN Contents ELSE {Absent} :
       \E r \in {DataGet(data, ae, sc, out1, out2)} :
          LET s == IF r.result = "ok" THEN SingleOf(ExportsOfClass(r.ret, cls))
                   ELSE [result |-> r.result, ret |-> NoExport]
          IN
          /\ data' = r.eff.data
          /\ regenerated' = r.eff.regen
          /\ last' = CallRecord("single", cls, data, ae, sc, s.result, s.ret, r.eff)
    /\ UNCHANGED <<pathVars, globVars>>

----------------------------------------------------------------------------
(* _AbstractAsset.glob *)

\* fnmatch of one path component: "*" matches any run of characters
RECURSIVE FnMatch(_, _)
FnMatch(pat, s) ==
    IF pat = <<>> THEN s = <<>>
    ELSE IF Head(pat) = "*"
         THEN FnMatch(Tail(pat), s) \/ (s # <<>> /\ FnMatch(pat, Tail(s)))
         ELSE s # <<>> /\ Head(s) = Head(pat) /\ FnMatch(Tail(pat), Tail(s))

\* lines 64-65 and Path.glob of a one-component pattern: the entries of the
\* directory that match, in the order the filesystem enumerates them
PathGlob(order, pattern) ==
    LET pat == IF Head(pattern) = "/" THEN Tail(pattern) ELSE pattern IN
    SelectSeq(order, LAMBDA e : FnMatch(pat, e.name))

\* the path of an entry of the globbed folder (_glob_root)
EntryPath(e) == DATA_PATH \o <<e.name>>

\* line 69: path.with_suffix("")
Trimmed(e) == WithSuffix(EntryPath(e), NOEXT)

\* the test of line 70 left out
AlreadyKnownNever(trimmed, known) == FALSE

\* line 70: trimmed_path in known_paths
AlreadyKnown(trimmed, known) == trimmed \in known

Consume(newKnown, newYielded) ==
    /\ pos < Len(listing)
    /\ pos' = pos + 1
    /\ known_paths' = newKnown
    /\ yielded' = newYielded
    /\ UNCHANGED listing
    /\ UNCHANGED <<pathVars, cacheVars>>

\* lines 70-71: continue
GlobSkip ==
    /\ pos < Len(listing)
    /\ AlreadyKnown(Trimmed(listing[pos + 1]), known_paths)
    /\ Consume(known_paths, yielded)

\* lines 72-75
GlobYieldFolder ==
    /\ pos < Len(listing)
    /\ ~AlreadyKnown(Trimmed(listing[pos + 1]), known_paths)
    /\ listing[pos + 1].kind = "dir"
    /\ Consume(known_paths \cup {Trimmed(listing[pos + 1])},
               Append(yielded,
                      [from |-> pos + 1,
                       node |-> AssetFolder(PathArg([abs |-> TRUE,
                                    parts |-> EntryPath(listing[pos + 1])]))]))

\* lines 72-77
GlobYieldFile ==
    /\ pos < Len(listing)
    /\ ~AlreadyKnown(Trimmed(listing[pos + 1]), known_paths)
    /\ listing[pos + 1].kind = "file"
    /\ Consume(known_paths \cup {Trimmed(listing[pos + 1])},
               Append(yielded,
                      [from |-> pos + 1,
                       node |-> AssetFile(PathArg([abs |-> TRUE,
                                    parts |-> EntryPath(listing[pos + 1])]))]))

\* lines 72-77 for an entry that is neither a directory nor a file
GlobYieldNothing ==
    /\ pos < Len(listing)
    /\ ~AlreadyKnown(Trimmed(listing[pos + 1]), known_paths)
    /\ listing[pos + 1].kind = "other"
    /\ Consume(known_paths \cup {Trimmed(listing[pos + 1])}, yielded)

----------------------------------------------------------------------------
(* SpecPath: building asset nodes *)

Segments == {DotDot, Dot, <<"a">>, <<"b", ".", "x">>}

SegSeqs(n) == UNION {[1..k -> Segments] : k \in 0..n}

Slashes(n) == [i \in 1..n |-> "/"]

\* root-relative strings: up to two leading separators, segments, optional trailing one
InputStrings ==
    {Slashes(l) \o StrJoin(q) \o Slashes(t) :
        l \in 0..2, q \in SegSeqs(MaxSegs), t \in 0..1}

\* short operands for folder / asset
ShortStrings == {<<"/">>} \cup {Slashes(l) \o g : l \in 0..1, g \in Segments}

\* names the filesystem can enumerate inside a folder
DirNames == {<<"a">>, <<"b", ".", "x">>}
FileNames == {<<"a">> \o UASSET, <<"b", ".", "x">> \o UASSET, <<"a">> \o JSONEXT}

Depth(n) == Len(n.full) - Len(DATA_PATH)

Built(n, name, left) ==
    /\ \E built \in {n} :
          /\ Depth(built) <= MaxDepth
          /\ node' = built
    /\ op' = name
    /\ err' = "none"
    /\ leftRoot' = left
    /\ touched' = {}
    /\ UNCHANGED unknown

Raised(name, e) ==
    /\ op' = name
    /\ err' = e
    /\ leftRoot' = FALSE
    /\ touched' = {}
    /\ UNCHANGED <<node, unknown>>

\* AssetFolder(s), AssetFile(s) for a str s
Construct(kind, s) ==
    /\ IF RaisesIndexError(StrArg(s))
       THEN Raised("new", "IndexError")
       ELSE Built(New(kind, StrArg(s)), "new", Escapes(Requested(StrArg(s))))
    /\ UNCHANGED <<cacheVars, globVars>>

\* the path AssetFolder.__truediv__ hands to AssetFolder(): lines 181-191
TrueDivPath(self, other) ==
    LET new_path == PurePath_truediv([abs |-> TRUE, parts |-> self.full], other) IN
    IF IsRelativeTo(new_path.parts, DATA_PATH) THEN new_path ELSE DataPathP

\* folder / "str"
TrueDivStr(x) ==
    /\ node.kind = "Folder"
    /\ Built(AssetFolder(PathArg(TrueDivPath(node, PurePath(x)))), "truediv",
             Escapes(PurePath_truediv([abs |-> TRUE, parts |-> node.full], PurePath(x))))
    /\ UNCHANGED <<cacheVars, globVars>>

\* folder / asset
TrueDivAsset(kind, s) ==
    /\ node.kind = "Folder"
    /\ ~RaisesIndexError(StrArg(s))
    /\ LET other == [abs |-> TRUE, parts |-> New(kind, StrArg(s)).full] IN
       Built(AssetFolder(PathArg(TrueDivPath(node, other))), "truediv",
             Escapes(PurePath_truediv([abs |-> TRUE, parts |-> node.full], other)))
    /\ UNCHANGED <<cacheVars, globVars>>

\* folder / 5
TrueDivOther ==
    /\ node.kind = "Folder"
    /\ Raised("truediv", "TypeError")
    /\ UNCHANGED <<cacheVars, globVars>>

\* _AbstractAsset.parent
Parent ==
    /\ IF node.full = DATA_PATH
       THEN IF node.kind = "Folder"
            THEN Built(node, "parent", FALSE)
            ELSE Built(AssetFolder(PathArg([abs |-> TRUE, parts |-> node.full])),
                       "parent", FALSE)
       ELSE LET p == [abs |-> TRUE, parts |-> PathParent(node.full)] IN
            Built(AssetFolder(PathArg(p)), "parent", Escapes(p))
    /\ UNCHANGED <<cacheVars, globVars>>

\* AssetFile.as_folder
AsFolder ==
    /\ node.kind = "File"
    /\ Built(AssetFolder(PathArg([abs |-> TRUE, parts |-> node.full])), "as", FALSE)
    /\ UNCHANGED <<cacheVars, globVars>>

\* AssetFolder.as_file
AsFile ==
    /\ node.kind = "Folder"
    /\ Built(AssetFile(PathArg([abs |-> TRUE, parts |-> node.full])), "as", FALSE)
    /\ UNCHANGED <<cacheVars, globVars>>

\* one node yielded by child_files
ChildFile(name) ==
    /\ node.kind = "Folder"
    /\ Suffix(name) = UASSET
    /\ LET child == node.full \o <<name>>
           rel   == [abs |-> FALSE, parts |-> RelativeTo(child, DATA_PATH)]
       IN  Built(AssetFile(PathArg(rel)), "child",
                 Escapes(PurePath_truediv(DataPathP, rel)))
    /\ UNCHANGED <<cacheVars, globVars>>

\* one node yielded by child_folders
ChildFolder(name) ==
    /\ node.kind = "Folder"
    /\ LET child == node.full \o <<name>>
           rel   == [abs |-> FALSE, parts |-> RelativeTo(child, DATA_PATH)]
       IN  Built(AssetFolder(PathArg(rel)), "child",
                 Escapes(PurePath_truediv(DataPathP, rel)))
    /\ UNCHANGED <<cacheVars, globVars>>

\* one node yielded by search_child_files: a descendant found by glob("**/*")
SearchChildFile(dir, name) ==
    /\ node.kind = "Folder"
    /\ Suffix(name) = UASSET
    /\ LET child == node.full \o <<dir, name>>
           rel   == [abs |-> FALSE, parts |-> RelativeTo(child, DATA_PATH)]
       IN  Built(AssetFile(PathArg(rel)), "child",
                 Escapes(PurePath_truediv(DataPathP, rel)))
    /\ UNCHANGED <<cacheVars, globVars>>

\* exists(): the path it stats
Exists ==
    /\ touched' = {IF node.kind = "File" THEN node.asset ELSE node.full}
    /\ op' = "exists"
    /\ err' = "none"
    /\ UNCHANGED <<node, leftRoot, unknown>>
    /\ UNCHANGED <<cacheVars, globVars>>

\* AssetFile.data on an unloaded file: the paths it stats, opens and hands to JWP
DataPaths(exists, jsonExists, stale) ==
    {node.asset}
        \cup (IF exists THEN {node.json} ELSE {})
        \cup (IF exists /\ (~jsonExists \/ stale) THEN {node.full} ELSE {})

DataTouch ==
    /\ node.kind = "File"
    /\ \E exists \in BOOLEAN, jsonExists \in BOOLEAN, stale \in BOOLEAN :
          touched' = DataPaths(exists, jsonExists, stale)
    /\ op' = "data"
    /\ err' = "none"
    /\ UNCHANGED <<node, leftRoot, unknown>>
    /\ UNCHANGED <<cacheVars, globVars>>

\* unknown.add(asset) (repeatable_missions.py): hashes the asset, then keeps one
\* element per class of equal ones
SetAdd ==
    /\ IF Hashable(node.kind)
       THEN /\ unknown' = IF \E e \in unknown : AssetEq(e, node)
                          THEN unknown ELSE unknown \cup {node}
            /\ err' = "none"
       ELSE /\ unknown' = unknown
            /\ err' = "TypeError"
    /\ op' = "add"
    /\ touched' = {}
    /\ UNCHANGED <<node, leftRoot>>
    /\ UNCHANGED <<cacheVars, globVars>>

\* values of the variables a specification does not use
IdleCache ==
    /\ data = PyNone
    /\ regenerated = FALSE
    /\ last = NoCall

IdleGlob ==
    /\ listing = <<>>
    /\ pos = 0
    /\ known_paths = {}
    /\ yielded = <<>>

IdlePath ==
    /\ node = AssetFolder(StrArg(<<"/">>))
    /\ op = "init"
    /\ err = "none"
    /\ leftRoot = FALSE
    /\ touched = {}
    /\ unknown = {}

\* _glob_root = AssetFolder("/")
InitPath == IdlePath /\ IdleCache /\ IdleGlob

NextPath ==
    \/ \E kind \in {"File", "Folder"}, s \in InputStrings : Construct(kind, s)
    \/ \E x \in InputStrings : TrueDivStr(x)
    \/ \E kind \in {"File", "Folder"}, s \in ShortStrings : TrueDivAsset(kind, s)
    \/ TrueDivOther
    \/ Parent
    \/ AsFolder
    \/ AsFile
    \/ \E name \in FileNames : ChildFile(name)
    \/ \E name \in DirNames : ChildFolder(name)
    \/ \E dir \in DirNames, name \in FileNames : SearchChildFile(dir, name)
    \/ Exists
    \/ DataTouch
    \/ SetAdd

SpecPath == InitPath /\ [][NextPath]_vars

StrictlyUnder(parts, base) == IsRelativeTo(parts, base) /\ Len(parts) > Len(base)

BuildOps == {"new", "truediv", "parent", "as", "child"}

\* C1: every node an operation builds has its canonical path at or under
\* DATA_PATH; when the path asked for normalises outside DATA_PATH the operation
\* raises nothing, the node's canonical path is DATA_PATH and its display string
\* is "/" ("" for a File).
C1_Sandboxed ==
    /\ IsRelativeTo(node.full, DATA_PATH)
    /\ op \in BuildOps /\ leftRoot =>
          /\ err = "none"
          /\ node.full = DATA_PATH
          /\ node.path = IF node.kind = "File" THEN <<>> ELSE <<"/">>

C1_Witness ==
    /\ op = "truediv" /\ leftRoot /\ err = "none"
    /\ node.full = DATA_PATH /\ node.path = <<"/">>

\* C9: adding an asset to a de-duplication set raises nothing and leaves exactly
\* one element equal to it (equal nodes hash alike).
C9_SetCollapses ==
    op = "add" =>
        /\ err = "none"
        /\ Cardinality({e \in unknown : AssetEq(e, node)}) = 1

\* C10: every path a File operation stats, reads or hands to the serializer is a
\* strict descendant of DATA_PATH.
C10_FilePathsInsideRoot ==
    node.kind = "File" => \A p \in touched : StrictlyUnder(p, DATA_PATH)

----------------------------------------------------------------------------
(* SpecCache: one AssetFile object, its two files, and the calls on it *)

InitCache ==
    /\ data = PyNone
    /\ regenerated = FALSE
    /\ last = NoCall
    /\ IdlePath /\ IdleGlob

NextCache ==
    \/ \E ae \in BOOLEAN, sc \in Contents : DataCall(ae, sc)
    \/ \E cls \in SUBSET ExportTypes, ae \in BOOLEAN, sc \in Contents :
          GetSingleExport(cls, ae, sc)

SpecCache == InitCache /\ [][NextCache]_vars

\* C2 as stated: without a sidecar, one JWP run in total, and success exactly
\* when the sidecar exists after it.
C2_OneRunThenSidecarDecides ==
    last.op = "data" /\ last.pre = "nosidecar" =>
        /\ last.jwp = 1
        /\ last.result = "ok" <=> last.mid # "absent"

\* C2 (amended): without a sidecar, data() runs JWP once, and once more exactly
\* when the sidecar it then loads is a non-empty list with a missing or old tag;
\* it fails when the sidecar is still absent after the first run, and succeeds
\* exactly when the first sidecar parses to an empty or current list, or to a
\* stale one and the sidecar reloaded after the second run parses to a list.
C2_RunsAndOutcome ==
    last.op = "data" /\ last.pre = "nosidecar" =>
        /\ last.jwp \in {1, 2}
        /\ last.jwp = 2 <=> last.mid = "stale"
        /\ last.mid = "absent" => last.result = "RuntimeError" /\ last.loads = 0
        /\ last.result = "ok" => last.mid # "absent"
        /\ last.result = "ok" <=>
              \/ last.mid \in {"empty", "fresh"}
              \/ last.mid = "stale" /\ last.seen2 \in ListKinds

C2_Witness ==
    /\ last.op = "data" /\ last.pre = "nosidecar"
    /\ last.jwp = 2 /\ last.mid = "stale" /\ last.result = "ok"

\* C3: with asset and sidecar present, a first record without the tag or with an
\* old tag makes data() run JWP exactly once and reload, and a list reloaded is
\* returned as it is, stale or not; a current tag or an empty list gives no run.
C3_StaleRepairedOnce ==
    last.op = "data" /\ last.pre = "sidecar" =>
        /\ last.side0 = "stale" =>
              /\ last.jwp = 1 /\ last.loads = 2
              /\ last.seen2 \in ListKinds =>
                    /\ last.result = "ok"
                    /\ data = last.ret
                    /\ KindOf(JsonArray(last.ret.recs)) = last.seen2
        /\ last.side0 \in {"fresh", "empty"} =>
              last.jwp = 0 /\ last.loads = 1 /\ last.result = "ok"

C3_Witness ==
    /\ last.op = "data" /\ last.pre = "sidecar" /\ last.side0 = "stale"
    /\ last.jwp = 1 /\ last.seen2 = "stale" /\ last.result = "ok"

\* C4: once _data is loaded, every data access returns that same list and runs
\* no JWP, loads nothing and tests no sidecar, whatever the disk holds.
C4_Memoized ==
    [][data # PyNone =>
          /\ data' = data
          /\ last' # last /\ last'.op = "data" =>
                /\ last'.result = "ok" /\ last'.ret = data
                /\ last'.jwp = 0 /\ last'.loads = 0 /\ last'.stats = 0]_vars

C4_Witness ==
    /\ last.op = "data" /\ last.pre = "loaded" /\ last.result = "ok"
    /\ last.ret = data /\ data.recs # <<>>

\* C5: data() on an unloaded file without its binary asset raises
\* FileNotFoundError, runs no JWP, neither tests nor loads the sidecar and stays
\* unloaded, also when a sidecar is on disk.
C5_NotFoundFirst ==
    last.op = "data" /\ last.pre = "noasset" =>
        /\ last.result = "FileNotFoundError"
        /\ last.jwp = 0 /\ last.loads = 0 /\ last.stats = 0
        /\ data = PyNone

C5_Witness ==
    /\ last.op = "data" /\ last.pre = "noasset" /\ last.side0 = "fresh"
    /\ last.result = "FileNotFoundError"

\* C6: loaded data is validated (empty, or first tag current) or was loaded
\* after a JWP run of this object.
C6_LoadedIsValidatedOrRegenerated ==
    data # PyNone =>
        \/ KindOf(JsonArray(data.recs)) \in {"empty", "fresh"}
        \/ regenerated

\* C7: on a loaded file get_single_export returns the only record whose type is
\* in cls, raises the "no exports" error when there is none and the "multiple
\* exports" error when there are two or more, and runs no JWP, loads nothing
\* and leaves _data as it was.
C7_SingleExport ==
    [][data # PyNone /\ last' # last /\ last'.op = "single" =>
          LET hits == {i \in 1..Len(data.recs) :
                          data.recs[i].export_type \in last'.cls}
          IN  /\ data' = data
              /\ last'.jwp = 0 /\ last'.loads = 0 /\ last'.stats = 0
              /\ Cardinality(hits) = 1 =>
                    /\ last'.result = "ok"
                    /\ \A i \in hits : last'.ret = OneExport(data.recs[i])
              /\ Cardinality(hits) = 0 => last'.result = "ValueError:none"
              /\ Cardinality(hits) >= 2 => last'.result = "ValueError:multiple"]_vars

C7_Witness ==
    /\ last.op = "single" /\ last.pre = "loaded"
    /\ last.result = "ValueError:multiple" /\ Len(data.recs) >= 2

----------------------------------------------------------------------------
(* SpecGlob: one glob() generator over one directory *)

GlobNames == {<<"Foo">>, <<"Foo">> \o UASSET, <<"Foo">> \o JSONEXT, <<"Bar">> \o UASSET}

EntryKinds == {"dir", "file", "other"}

Patterns == {<<"*">>, <<"/", "*">>, <<"Foo", "*">>, <<"*", ".", "uasset">>}

\* the directory in an order the filesystem may enumerate it: distinct names
Enumerations ==
    {q \in UNION {[1..n -> [name : GlobNames, kind : EntryKinds]] : n \in 0..MaxEntries} :
        \A i, j \in 1..Len(q) : i # j => q[i].name # q[j].name}

InitGlob ==
    /\ \E order \in Enumerations, pattern \in Patterns :
          listing = PathGlob(order, pattern)
    /\ pos = 0
    /\ known_paths = {}
    /\ yielded = <<>>
    /\ IdlePath /\ IdleCache

NextGlob ==
    \/ GlobSkip
    \/ GlobYieldFolder
    \/ GlobYieldFile
    \/ GlobYieldNothing

SpecGlob == InitGlob /\ [][NextGlob]_vars

SameStem(i, j) == Trimmed(listing[i]) = Trimmed(listing[j])

YieldedFor(i) == {k \in 1..Len(yielded) : SameStem(yielded[k].from, i)}

\* C8 as stated: at most one node per stem, and the Folder when a directory and
\* a file (binary asset or sidecar) of the same stem both match.
C8_DirectoryPreferred ==
    /\ \A k, m \in 1..Len(yielded) :
          k # m => ~SameStem(yielded[k].from, yielded[m].from)
    /\ pos = Len(listing) =>
          \A i, j \in 1..Len(listing) :
              (/\ SameStem(i, j)
               /\ listing[i].kind = "dir" /\ Suffix(listing[i].name) = <<>>
               /\ listing[j].kind = "file"
               /\ Suffix(listing[j].name) \in {UASSET, JSONEXT}) =>
                  /\ Cardinality(YieldedFor(i)) = 1
                  /\ \A k \in YieldedFor(i) : yielded[k].node.kind = "Folder"

\* C8 (amended): at most one node per stem, and the node of a stem is the one of
\* the entry of that stem enumerated first: a Folder for a directory, a File for
\* a file, nothing for any other kind of entry.
C8_FirstEnumeratedWins ==
    /\ \A k, m \in 1..Len(yielded) :
          k # m => ~SameStem(yielded[k].from, yielded[m].from)
    /\ \A k \in 1..Len(yielded) :
          LET i == yielded[k].from IN
          /\ \A j \in 1..(i - 1) : ~SameStem(i, j)
          /\ listing[i].kind = "dir" => yielded[k].node.kind = "Folder"
          /\ listing[i].kind = "file" => yielded[k].node.kind = "File"
          /\ listing[i].kind # "other"
    /\ pos = Len(listing) =>
          \A i \in 1..Len(listing) :
              (listing[i].kind # "other" /\ \A j \in 1..(i - 1) : ~SameStem(i, j))
                  => \E k \in 1..Len(yielded) : yielded[k].from = i

C8_Witness ==
    /\ pos = Len(listing)
    /\ \E i, j \in 1..Len(listing) :
          /\ i < j /\ SameStem(i, j)
          /\ listing[i].kind = "file" /\ listing[i].name = <<"Foo">> \o UASSET
          /\ listing[j].kind = "dir" /\ listing[j].name = <<"Foo">>
          /\ \E k \in 1..Len(yielded) :
                yielded[k].from = i /\ yielded[k].node.kind = "File"
          /\ Cardinality(YieldedFor(i)) = 1

====
